---- MODULE Spec2Model ----
(***************************************************************************)
(* Authentication and session lifecycle of the Enrichment backend:         *)
(* AuthService (register, login, refreshToken, logout, verifyToken,        *)
(* generateTokens) over the users and user_sessions tables.                *)
(*                                                                         *)
(* Library behaviour the service relies on, modelled by what it does:      *)
(*  - bcrypt.hash(data, rounds) draws a fresh random salt on every call    *)
(*    and embeds it in the digest; bcrypt.compare re-hashes with the       *)
(*    digest's own salt.  Which salt a call drew matters only through     *)
(*    equality with the salt of another call: each digest written to the  *)
(*    store carries a salt of its own (numbered by the write), and the    *)
(*    salt of a later call is a nondeterministic choice between the salts *)
(*    in the store and a salt no stored digest has.                       *)
(*  - jwt.sign is deterministic in (payload, secret); jwt.verify checks    *)
(*    the signature first and then throws TokenExpiredError when           *)
(*    now >= exp.  No issuer/audience option is passed to jwt.verify.      *)
(*  - drizzle's eq(a, b) renders "a = b"; under SQL's three-valued logic   *)
(*    a comparison with NULL is never true in a WHERE clause.              *)
(***************************************************************************)
EXTENDS Integers, Sequences, FiniteSets, TLC

\* ---------------------------------------------------------------- bounds
MaxUsers == 2
MaxSessions == 3
MaxTime == 2
MaxLateTime == 4
AccessExpiresIn == 1
RefreshExpiresIn == 3

Emails == {"a@x", "b@x"}
Usernames == {"alice", "bob"}
Passwords == {"pw1", "pw2"}
NoCode == "none"
MfaCodes == {NoCode, "123456", "000000"}

\* SQL NULL, and a non-null SQL value
NULL == <<>>
Val(x) == <<x>>
NoValue == "none"
AccessSecret == "JWT_SECRET"
RefreshSecret == "JWT_REFRESH_SECRET"
Issuer == "enrichment"
Audience == "enrichment-users"
\* values JWT_ISSUER and JWT_AUDIENCE can be set to
Issuers == {Issuer, "other-realm"}
Audiences == {Audience, "other-service"}

VARIABLES users, sessions, nextSid, now, config, issued,
          rotated, loggedOut, last,
          pc, rdata, rlocal, rres, app

vars == <<users, sessions, nextSid, now, config, issued,
          rotated, loggedOut, last, pc, rdata, rlocal, rres, app>>

storeVars == <<users, sessions, nextSid, issued>>
histVars == <<rotated, loggedOut>>

\* refresh tokens that a successful refreshToken call has consumed
usedRefresh == {x.token : x \in rotated}
regVars == <<pc, rdata, rlocal, rres>>

\* ------------------------------------------------------- library helpers
\* bcrypt.hash(data, rounds): digest carries the random salt it was made with
BcryptHash(data, salt) == <<data, salt>>

\* bcrypt.compare(data, digest): re-hash data with the digest's salt
BcryptCompare(data, digest) == BcryptHash(data, digest[2]) = digest

\* eq(column, value) in a WHERE clause: NULL on either side is never a match
SqlEq(a, b) == a # NULL /\ b # NULL /\ a = b

\* jwt.sign(payload, secret): HS256 is a function of payload and secret
JwtSign(payload, secret) == [payload |-> payload, secret |-> secret]

\* jwt.verify that checks the signature and never the expiry
JwtVerifyIgnoringExp(token, secret, t) ==
    IF token.secret # secret THEN "JsonWebTokenError" ELSE "ok"

\* jwt.verify that checks the expiry and accepts a signature made with any secret
JwtVerifyAnySecret(token, secret, t) ==
    IF t >= token.payload.exp THEN "TokenExpiredError" ELSE "ok"

\* jwt.verify(token, secret) at clock t
JwtVerify(token, secret, t) ==
    IF token.secret # secret THEN "JsonWebTokenError"
    ELSE IF t >= token.payload.exp THEN "TokenExpiredError"
    ELSE "ok"

\* ----------------------------------------------------------------- errors
AppError(message, statusCode, details) ==
    [kind |-> "AppError", message |-> message, statusCode |-> statusCode,
     details |-> details, isOperational |-> TRUE]

NoDetails == "undefined"

\* a unique-constraint violation raised by the postgres driver (not an AppError)
UniqueViolation ==
    [kind |-> "PostgresError", code |-> "23505",
     message |-> "duplicate key value violates unique constraint"]

isOperationalError(error) ==
    IF error.kind = "AppError" THEN error.isOperational ELSE FALSE

\* errorHandler: status of the response sent for a thrown error
errorHandlerStatus(error) ==
    IF isOperationalError(error) THEN error.statusCode ELSE 500

\* the members of ERROR_CODES that getErrorCode and the handlers use
ERROR_CODES ==
    [INVALID_CREDENTIALS |-> 40101, TOKEN_EXPIRED |-> 40102,
     USER_NOT_FOUND |-> 40401, SERVER_NOT_FOUND |-> 40402,
     CHANNEL_NOT_FOUND |-> 40403, USER_ALREADY_EXISTS |-> 40901,
     USERNAME_TAKEN |-> 40902, RATE_LIMIT_EXCEEDED |-> 42901,
     INTERNAL_SERVER_ERROR |-> 50001]

\* String.prototype.toLowerCase over the messages the errors carry
toLowerCase(message) ==
    CASE message = "Invalid credentials" -> "invalid credentials"
      [] message = "Invalid token" -> "invalid token"
      [] message = "Token expired" -> "token expired"
      [] message = "Token expired or invalid" -> "token expired or invalid"
      [] message = "Invalid refresh token" -> "invalid refresh token"
      [] message = "User not found" -> "user not found"
      [] message = "User already exists" -> "user already exists"
      [] message = "User already exists with this email" -> "user already exists with this email"
      [] message = "Username is already taken" -> "username is already taken"
      [] message = "MFA code required" -> "mfa code required"
      [] message = "Invalid MFA code" -> "invalid mfa code"
      [] message = "Rate limit exceeded" -> "rate limit exceeded"
      [] message = "Authorization header missing" -> "authorization header missing"
      [] message = "Invalid authorization format" -> "invalid authorization format"
      [] message = "Session not found" -> "session not found"
      [] message = "Invalid Credentials" -> "invalid credentials"
      [] message = "USER NOT FOUND" -> "user not found"
      [] message = "Server not found" -> "server not found"
      [] message = "Channel not found" -> "channel not found"
      [] message = "Message not found" -> "message not found"
      [] OTHER -> message

\* a code that is made from the status alone
getErrorCodeByStatus(error) == error.statusCode * 100 + 1

getErrorCode(error) ==
    LET baseCode == error.statusCode * 100
        message == toLowerCase(error.message)
    IN  CASE message = "invalid credentials" -> ERROR_CODES.INVALID_CREDENTIALS
          [] message = "token expired" -> ERROR_CODES.TOKEN_EXPIRED
          [] message = "user not found" -> ERROR_CODES.USER_NOT_FOUND
          [] message = "server not found" -> ERROR_CODES.SERVER_NOT_FOUND
          [] message = "channel not found" -> ERROR_CODES.CHANNEL_NOT_FOUND
          [] message = "user already exists" -> ERROR_CODES.USER_ALREADY_EXISTS
          [] message = "username is already taken" -> ERROR_CODES.USERNAME_TAKEN
          [] message = "rate limit exceeded" -> ERROR_CODES.RATE_LIMIT_EXCEEDED
          [] OTHER -> baseCode + 1

\* the body createErrorResponse builds
createErrorResponse(error, requestId) ==
    IF error.kind = "AppError"
    THEN [error |-> [code |-> getErrorCode(error), message |-> error.message,
                     details |-> error.details, requestId |-> requestId]]
    ELSE [error |-> [code |-> ERROR_CODES.INTERNAL_SERVER_ERROR,
                     message |-> "An unexpected error occurred",
                     requestId |-> requestId]]

\* error.name and error.stack of a thrown error
ErrorName(error) == IF error.kind = "AppError" THEN "Error" ELSE error.kind
ErrorStack(error) == <<ErrorName(error), error.message, "at">>

\* a handler of unexpected errors that sends the debugging details always
handleProgrammingErrorVerbose(error, isProduction, requestId) ==
    [status |-> 500,
     body |-> [error |-> [code |-> 50001, message |-> "Internal server error",
                          details |-> [name |-> ErrorName(error),
                                       message |-> error.message,
                                       stack |-> ErrorStack(error)],
                          requestId |-> requestId]]]

\* handleProgrammingError(error, res, requestId) under config.isProduction
handleProgrammingError(error, isProduction, requestId) ==
    IF isProduction
    THEN [status |-> 500,
          body |-> [error |-> [code |-> 50001, message |-> "Internal server error",
                               requestId |-> requestId]]]
    ELSE [status |-> 500,
          body |-> [error |-> [code |-> 50001, message |-> "Internal server error",
                               details |-> [name |-> ErrorName(error),
                                            message |-> error.message,
                                            stack |-> ErrorStack(error)],
                               requestId |-> requestId]]]

\* the response errorHandler sends for a thrown error
errorHandler(error, isProduction, requestId) ==
    IF isOperationalError(error)
    THEN [status |-> error.statusCode, body |-> createErrorResponse(error, requestId)]
    ELSE handleProgrammingError(error, isProduction, requestId)

\* the response the catch block of authMiddleware sends for a thrown error
AuthMiddlewareResponse(error) ==
    IF error.kind = "AppError"
    THEN [status |-> error.statusCode,
          error |-> [code |-> error.statusCode * 100 + 1, message |-> error.message,
                     details |-> error.details]]
    ELSE [status |-> 401,
          error |-> [code |-> 40101, message |-> "Unauthorized",
                     details |-> "Invalid or expired token"]]

NoError == [kind |-> "none"]
NoTokens == [accessToken |-> NoValue, refreshToken |-> NoValue, expiresIn |-> 0]

\* ---------------------------------------------------------- generateTokens
AccessPayload(user, t) ==
    [sub |-> user.id, email |-> user.email, username |-> user.username,
     iat |-> t, exp |-> t + AccessExpiresIn,
     iss |-> config.issuer, aud |-> config.audience]

RefreshPayload(user, t) ==
    [sub |-> user.id, iat |-> t, exp |-> t + RefreshExpiresIn,
     iss |-> config.issuer, aud |-> config.audience]

TokenPairOf(user, t) ==
    [accessToken |-> JwtSign(AccessPayload(user, t), AccessSecret),
     refreshToken |-> JwtSign(RefreshPayload(user, t), RefreshSecret),
     expiresIn |-> AccessExpiresIn]

\* salts of the digests written by the n-th session insert, by the update that
\* accompanies it in refreshToken, and by the n-th password hashing
InsertSalt(n) == 2 * n
UpdateSalt(n) == 2 * n + 1
PasswordSalt(n) == n
\* a salt that no stored digest has
OtherSalt == 0

\* the row generateTokens inserts into user_sessions
SessionRow(sid, user, t) ==
    [id |-> sid, userId |-> user.id,
     tokenHash |-> BcryptHash(TokenPairOf(user, t).accessToken, InsertSalt(sid)),
     refreshTokenHash |-> BcryptHash(TokenPairOf(user, t).refreshToken, InsertSalt(sid)),
     expiresAt |-> t + RefreshExpiresIn, lastUsedAt |-> t]

\* what is left at the place of a users row that has been deleted
Removed == [removed |-> TRUE]

UserRows == {users[i] : i \in {j \in 1..Len(users) : users[j] # Removed}}

\* the row register inserts into users (defaults from the schema)
UserRow(uid, data) ==
    [id |-> uid, username |-> data.username, email |-> data.email,
     passwordHash |-> BcryptHash(data.password, PasswordSalt(uid)),
     mfaEnabled |-> FALSE, system |-> FALSE, flags |-> 0, deletedAt |-> NULL]

\* a returned account value that is the stored row as it is
WithPassword(user) == user

\* { passwordHash: _, ...userWithoutPassword }
WithoutPassword(user) ==
    [id |-> user.id, username |-> user.username, email |-> user.email,
     mfaEnabled |-> user.mfaEnabled, system |-> user.system, flags |-> user.flags,
     deletedAt |-> user.deletedAt]

RegisterPasswords == {"pw1"}
RegisterData == [username : Usernames, email : Emails, password : RegisterPasswords]
\* the one sign-up the session lifecycle follows
SessionRegisterData == [username : {"alice"}, email : {"a@x"}, password : RegisterPasswords]

\* last: the request that has just completed and what it returned or threw
\* two register requests in flight at once
Procs == {1, 2}

Idle == [op |-> "none", ok |-> TRUE, err |-> NoError]

\* app: the Application after its constructor: start() not yet called, the
\* HTTP server created and not listening, the connection pool open, no signal
\* handler registered, the process running
Constructed ==
    [start |-> "new", dbConnected |-> "pending", server |-> "created",
     io |-> "open", db |-> "open", handlers |-> FALSE, threw |-> FALSE,
     exitBy |-> "none", code |-> 0]

Init ==
    /\ users = <<>>
    /\ sessions = {}
    /\ nextSid = 1
    /\ now = 0
    /\ config = [issuer |-> Issuer, audience |-> Audience]
    /\ issued = {}
    /\ rotated = {}
    /\ loggedOut = {}
    /\ last = Idle
    /\ pc = [p \in Procs |-> "idle"]
    /\ rdata = [p \in Procs |-> NoValue]
    /\ rlocal = [p \in Procs |-> NoValue]
    /\ rres = [p \in Procs |-> NoError]
    /\ app = Constructed

\* -------------------------------------------------------------- register
\* register that checks the email and forgets the username
RegisterErrorEmailOnly(data) ==
    IF \E u \in UserRows : SqlEq(Val(u.email), Val(data.email))
    THEN AppError("User already exists with this email", 409, NoDetails)
    ELSE NoError

RegisterError(data) ==
    IF \E u \in UserRows : SqlEq(Val(u.email), Val(data.email))
    THEN AppError("User already exists with this email", 409, NoDetails)
    ELSE IF \E u \in UserRows : SqlEq(Val(u.username), Val(data.username))
    THEN AppError("Username is already taken", 409, NoDetails)
    ELSE NoError

Register(data) ==
    LET err == RegisterError(data)
        newUser == UserRow(Len(users) + 1, data)
        tokens == TokenPairOf(newUser, now)
    IN  IF err # NoError
        THEN /\ last' = [op |-> "register", data |-> data, ok |-> FALSE,
                         err |-> err, user |-> NoValue, tokens |-> NoTokens]
             /\ UNCHANGED <<storeVars, now, config, app, histVars, regVars>>
        ELSE /\ Len(users) < MaxUsers
             /\ nextSid <= MaxSessions
             /\ users' = Append(users, newUser)
             /\ sessions' = sessions \cup {SessionRow(nextSid, newUser, now)}
             /\ nextSid' = nextSid + 1
             /\ issued' = issued \cup {tokens.accessToken, tokens.refreshToken}
             /\ last' = [op |-> "register", data |-> data, ok |-> TRUE,
                         err |-> NoError, user |-> WithoutPassword(newUser),
                         tokens |-> tokens]
             /\ UNCHANGED <<now, config, app, histVars, regVars>>

\* ----------------------------------------------------------------- login
LoginCredentials == [email : Emails, password : Passwords, mfaCode : MfaCodes]

\* the log-ins tried during the session lifecycle
SessionLoginCredentials == [email : {"a@x"}, password : Passwords, mfaCode : {NoCode}]

\* .where(and(eq(users.email, email), eq(users.deletedAt, null))).limit(1)
LoginUserRows(credentials) ==
    {u \in UserRows : SqlEq(Val(u.email), Val(credentials.email)) /\ SqlEq(u.deletedAt, NULL)}

\* verifyMfaCode: placeholder that accepts one fixed code
verifyMfaCode(userId, code) == code = "123456"

\* !credentials.mfaCode
NoMfaCode(credentials) == credentials.mfaCode = NoCode

\* login that tells the caller when no row was found
LoginErrorUserNotFound(rows, credentials) ==
    IF rows = {} THEN AppError("User not found", 404, NoDetails)
    ELSE LET user == CHOOSE u \in rows : TRUE
         IN  IF ~BcryptCompare(credentials.password, user.passwordHash)
             THEN AppError("Invalid credentials", 401, NoDetails)
             ELSE NoError

\* the error login throws for the row it found (NoError: it goes on to issue tokens)
LoginError(rows, credentials) ==
    IF rows = {} THEN AppError("Invalid credentials", 401, NoDetails)
    ELSE LET user == CHOOSE u \in rows : TRUE
         IN  IF ~BcryptCompare(credentials.password, user.passwordHash)
             THEN AppError("Invalid credentials", 401, NoDetails)
             ELSE IF user.mfaEnabled /\ NoMfaCode(credentials)
             THEN AppError("MFA code required", 401, "mfaRequired")
             ELSE IF user.mfaEnabled /\ ~NoMfaCode(credentials)
                     /\ ~verifyMfaCode(user.id, credentials.mfaCode)
             THEN AppError("Invalid MFA code", 401, NoDetails)
             ELSE NoError

\* login that makes the session of the account with the given email before
\* it has checked anything, and then refuses the credentials
LoginTokensFirst(credentials) ==
    LET rows == {u \in UserRows : u.email = credentials.email}
        user == CHOOSE u \in rows : TRUE
        tokens == TokenPairOf(user, now)
    IN  /\ rows # {}
        /\ nextSid <= MaxSessions
        /\ sessions' = sessions \cup {SessionRow(nextSid, user, now)}
        /\ nextSid' = nextSid + 1
        /\ issued' = issued \cup {tokens.accessToken, tokens.refreshToken}
        /\ last' = [op |-> "login", credentials |-> credentials, ok |-> FALSE,
                    err |-> AppError("Invalid credentials", 401, NoDetails),
                    user |-> NoValue, tokens |-> NoTokens]
        /\ UNCHANGED <<users, now, config, app, histVars, regVars>>

Login(credentials) ==
    LET rows == LoginUserRows(credentials)
        err == LoginError(rows, credentials)
        user == CHOOSE u \in rows : TRUE
        tokens == TokenPairOf(user, now)
    IN  IF err # NoError
        THEN /\ last' = [op |-> "login", credentials |-> credentials, ok |-> FALSE,
                         err |-> err, user |-> NoValue, tokens |-> NoTokens]
             /\ UNCHANGED <<storeVars, now, config, app, histVars, regVars>>
        ELSE /\ nextSid <= MaxSessions
             /\ sessions' = sessions \cup {SessionRow(nextSid, user, now)}
             /\ nextSid' = nextSid + 1
             /\ issued' = issued \cup {tokens.accessToken, tokens.refreshToken}
             /\ last' = [op |-> "login", credentials |-> credentials, ok |-> TRUE,
                         err |-> NoError, user |-> WithoutPassword(user),
                         tokens |-> tokens]
             /\ UNCHANGED <<users, now, config, app, histVars, regVars>>

\* ---------------------------------------------------------- refreshToken
\* rows of .where(and(eq(userId, sub), eq(refreshTokenHash, hash)))
RefreshSessionRows(token, hash) ==
    {x \in sessions : SqlEq(Val(x.userId), Val(token.payload.sub))
                      /\ SqlEq(Val(x.refreshTokenHash), Val(hash))}

\* .where(eq(users.id, payload.sub))
UsersById(sub) == {u \in UserRows : SqlEq(Val(u.id), Val(sub))}

\* a lookup that never finds a session row too old
SessionNeverExpired(session, t) == FALSE

\* session.expiresAt < new Date()
SessionExpired(session, t) == session.expiresAt < t

\* every error inside refreshToken is replaced by this one in its catch block
RefreshFailure == AppError("Invalid refresh token", 401, NoDetails)

RefreshLast(token, s, ok, err, tokens) ==
    [op |-> "refresh", ok |-> ok, err |-> err,
     tokens |-> tokens, reused |-> token \in usedRefresh,
     sub |-> token.payload.sub,
     signed |-> token.secret = RefreshSecret,
     realm |-> token.payload.iss = config.issuer /\ token.payload.aud = config.audience,
     verified |-> JwtVerify(token, RefreshSecret, now) = "ok",
     current |-> \E x \in sessions : x.refreshTokenHash[1] = token,
     found |-> RefreshSessionRows(token, BcryptHash(token, s)) # {},
     foundExpired |-> \E x \in RefreshSessionRows(token, BcryptHash(token, s)) :
                         x.expiresAt < now,
     heldByExpired |-> \E x \in sessions : /\ x.refreshTokenHash[1] = token
                                            /\ x.expiresAt < now,
     replayedSids |-> {x.sid : x \in {y \in rotated : y.token = token}}]

RefreshFail(token, s) ==
    /\ \/ JwtVerify(token, RefreshSecret, now) # "ok"
       \/ RefreshSessionRows(token, BcryptHash(token, s)) = {}
       \/ \E x \in RefreshSessionRows(token, BcryptHash(token, s)) : SessionExpired(x, now)
       \/ UsersById(token.payload.sub) = {}
    /\ last' = RefreshLast(token, s, FALSE, RefreshFailure, NoTokens)
    /\ UNCHANGED <<storeVars, now, config, app, histVars, regVars>>

RefreshOk(token, s) ==
    /\ JwtVerify(token, RefreshSecret, now) = "ok"
    /\ \E session \in RefreshSessionRows(token, BcryptHash(token, s)) :
         /\ ~SessionExpired(session, now)
         /\ UsersById(token.payload.sub) # {}
         /\ nextSid <= MaxSessions
         /\ LET user == CHOOSE u \in UsersById(token.payload.sub) : TRUE
                tokens == TokenPairOf(user, now)
                inserted == SessionRow(nextSid, user, now)
                updated == [session EXCEPT
                              !.tokenHash = BcryptHash(tokens.accessToken, UpdateSalt(nextSid)),
                              !.refreshTokenHash = BcryptHash(tokens.refreshToken, UpdateSalt(nextSid)),
                              !.lastUsedAt = now]
            IN  /\ sessions' = ((sessions \ {session}) \cup {updated}) \cup {inserted}
                /\ nextSid' = nextSid + 1
                /\ issued' = issued \cup {tokens.accessToken, tokens.refreshToken}
                /\ rotated' = rotated \cup {[token |-> token, sid |-> session.id,
                                              access |-> session.tokenHash[1]]}
                /\ last' = RefreshLast(token, s, TRUE, NoError, tokens)
    /\ UNCHANGED <<users, now, config, app, loggedOut, regVars>>

Refresh(token, s) ==
    \/ RefreshFail(token, s)
    \/ RefreshOk(token, s)

\* ---------------------------------------------------------------- logout
\* a delete that matches on the account alone
LogoutRowsByUser(userId, tokenHash) ==
    {x \in sessions : SqlEq(Val(x.userId), Val(userId))}

LogoutRows(userId, tokenHash) ==
    {x \in sessions : SqlEq(Val(x.userId), Val(userId)) /\ SqlEq(Val(x.tokenHash), Val(tokenHash))}

\* logout that reports a delete which removed no row
LogoutErrorNotFound(rows) ==
    IF rows = {} THEN AppError("Session not found", 404, NoDetails) ELSE NoError

\* the error logout throws after its delete: it never looks at the row count
LogoutError(rows) == NoError

\* loggedOut: the digests of the rows that logout has deleted
Logout(userId, tokenHash) ==
    /\ sessions' = sessions \ LogoutRows(userId, tokenHash)
    /\ loggedOut' = loggedOut \cup {x.tokenHash : x \in LogoutRows(userId, tokenHash)}
    /\ last' = [op |-> "logout",
                ok |-> LogoutError(LogoutRows(userId, tokenHash)) = NoError,
                err |-> LogoutError(LogoutRows(userId, tokenHash)),
                deleted |-> LogoutRows(userId, tokenHash),
                revoked |-> tokenHash \in loggedOut]
    /\ UNCHANGED <<users, nextSid, issued, now, config, app, rotated, regVars>>

\* ----------------------------------------------------------- verifyToken
VerifySessionRows(token, hash) ==
    {x \in sessions : SqlEq(Val(x.userId), Val(token.payload.sub)) /\ SqlEq(Val(x.tokenHash), Val(hash))}

\* the error verifyToken throws (NoError: it returns the payload)
VerifyError(token, s, t) ==
    IF JwtVerify(token, AccessSecret, t) # "ok"
    THEN AppError("Invalid token", 401, NoDetails)
    ELSE IF \A x \in VerifySessionRows(token, BcryptHash(token, s)) : SessionExpired(x, t)
    THEN AppError("Token expired or invalid", 401, NoDetails)
    ELSE NoError

\* authMiddleware once it holds the bearer token: verifyToken, then the
\* select of the user by payload.sub
AuthMiddlewareError(verifyError, sub) ==
    IF verifyError # NoError THEN verifyError
    ELSE IF UsersById(sub) = {} THEN AppError("User not found", 401, NoDetails)
    ELSE NoError

VerifyToken(token, s) ==
    /\ last' = [op |-> "verify",
                ok |-> VerifyError(token, s, now) = NoError,
                err |-> VerifyError(token, s, now),
                payload |-> IF VerifyError(token, s, now) = NoError
                            THEN token.payload ELSE NoValue,
                sub |-> token.payload.sub,
                realm |-> /\ token.payload.iss = config.issuer
                          /\ token.payload.aud = config.audience,
                request |-> AuthMiddlewareError(VerifyError(token, s, now),
                                                token.payload.sub),
                signed |-> token.secret = AccessSecret,
                expired |-> now >= token.payload.exp,
                afterLogout |-> \E h \in loggedOut : h[1] = token,
                held |-> \E x \in sessions : x.tokenHash[1] = token,
                rotatedAway |-> \E x \in rotated : x.access = token,
                heldByExpired |-> \E x \in sessions : /\ x.tokenHash[1] = token
                                                       /\ x.expiresAt < now,
                sessionLive |-> \E x \in VerifySessionRows(token, BcryptHash(token, s)) :
                                    ~(x.expiresAt < now)]
    /\ UNCHANGED <<storeVars, now, config, app, histVars, regVars>>

\* ------------------------------------------------- account row mutations
\* soft delete: the tombstone timestamp is set
SoftDelete(i) ==
    /\ i \in 1..Len(users)
    /\ users[i].deletedAt = NULL
    /\ users' = [users EXCEPT ![i].deletedAt = Val(now)]
    /\ last' = Idle
    /\ UNCHANGED <<sessions, nextSid, issued, now, config, app, histVars, regVars>>

\* the account turns on its second factor
EnableMfa(i) ==
    /\ i \in 1..Len(users)
    /\ ~users[i].mfaEnabled
    /\ users' = [users EXCEPT ![i].mfaEnabled = TRUE]
    /\ last' = Idle
    /\ UNCHANGED <<sessions, nextSid, issued, now, config, app, histVars, regVars>>

Tick ==
    /\ now < MaxTime
    /\ now' = now + 1
    /\ last' = Idle
    /\ UNCHANGED <<storeVars, config, app, histVars, regVars>>

\* the salts bcrypt.hash(data, 10) can draw now, as far as equality with a
\* stored digest can tell: the salt of a stored digest of data, or another one
Salts(data) ==
    {x.tokenHash[2] : x \in {y \in sessions : y.tokenHash[1] = data}}
        \cup {x.refreshTokenHash[2] : x \in {y \in sessions : y.refreshTokenHash[1] = data}}
        \cup {OtherSalt}

\* the digests a caller of logout can pass: of a token under a salt it can
\* have, or the digest of a row an earlier logout deleted
TokenHashes == UNION {{BcryptHash(a, s) : s \in Salts(a)} : a \in issued} \cup loggedOut

\* the ids a caller of logout can pass: an account's, or one no account has
UserIds == 1..(Len(users) + 1)

Next ==
    \/ \E d \in SessionRegisterData : Register(d)
    \/ \E c \in SessionLoginCredentials : Login(c)
    \/ \E token \in issued : \E s \in Salts(token) : Refresh(token, s)
    \/ \E userId \in UserIds, h \in TokenHashes : Logout(userId, h)
    \/ \E token \in issued : \E s \in Salts(token) : VerifyToken(token, s)
    \/ \E i \in 1..MaxUsers : SoftDelete(i)
    \/ Tick

\* the session lifecycle of one account: requests arrive one at a time
Spec == Init /\ [][Next]_vars

NextAccounts ==
    \/ \E d \in RegisterData : Register(d)
    \/ \E c \in LoginCredentials : Login(c)
    \/ \E i \in 1..MaxUsers : EnableMfa(i)
    \/ Tick

\* registration and login over several accounts: requests arrive one at a time
SpecAccounts == Init /\ [][NextAccounts]_vars

\* ------------------------------------------- register, one await at a time
\* two register calls interleave at their awaits; each database statement is
\* atomic, and the users table enforces its unique constraints on insert
RegBegin(p, data) ==
    /\ pc[p] = "idle"
    /\ pc' = [pc EXCEPT ![p] = "checkEmail"]
    /\ rdata' = [rdata EXCEPT ![p] = data]
    /\ UNCHANGED <<storeVars, now, config, app, histVars, last, rlocal, rres>>

RegCheckEmail(p) ==
    /\ pc[p] = "checkEmail"
    /\ IF \E u \in UserRows : SqlEq(Val(u.email), Val(rdata[p].email))
       THEN /\ rres' = [rres EXCEPT ![p] =
                          AppError("User already exists with this email", 409, NoDetails)]
            /\ pc' = [pc EXCEPT ![p] = "done"]
       ELSE /\ pc' = [pc EXCEPT ![p] = "checkUsername"]
            /\ UNCHANGED rres
    /\ UNCHANGED <<storeVars, now, config, app, histVars, last, rdata, rlocal>>

RegCheckUsername(p) ==
    /\ pc[p] = "checkUsername"
    /\ IF \E u \in UserRows : SqlEq(Val(u.username), Val(rdata[p].username))
       THEN /\ rres' = [rres EXCEPT ![p] =
                          AppError("Username is already taken", 409, NoDetails)]
            /\ pc' = [pc EXCEPT ![p] = "done"]
       ELSE /\ pc' = [pc EXCEPT ![p] = "hash"]
            /\ UNCHANGED rres
    /\ UNCHANGED <<storeVars, now, config, app, histVars, last, rdata, rlocal>>

RegHash(p) ==
    /\ pc[p] = "hash"
    /\ pc' = [pc EXCEPT ![p] = "insert"]
    /\ rlocal' = [rlocal EXCEPT ![p] = BcryptHash(rdata[p].password, PasswordSalt(p))]
    /\ UNCHANGED <<storeVars, now, config, app, histVars, last, rdata, rres>>

\* the unique constraints on users.username and users.email
UniqueConflict(data) ==
    \E u \in UserRows : u.email = data.email \/ u.username = data.username

RegInsert(p) ==
    /\ pc[p] = "insert"
    /\ IF UniqueConflict(rdata[p])
       THEN /\ rres' = [rres EXCEPT ![p] = UniqueViolation]
            /\ pc' = [pc EXCEPT ![p] = "done"]
            /\ UNCHANGED <<users, rlocal>>
       ELSE /\ users' = Append(users, [UserRow(Len(users) + 1, rdata[p])
                                         EXCEPT !.passwordHash = rlocal[p]])
            /\ rlocal' = [rlocal EXCEPT ![p] = Len(users) + 1]
            /\ pc' = [pc EXCEPT ![p] = "tokens"]
            /\ UNCHANGED rres
    /\ UNCHANGED <<sessions, nextSid, issued, now, config, app, histVars, last, rdata>>

RegTokens(p) ==
    /\ pc[p] = "tokens"
    /\ sessions' = sessions \cup {SessionRow(nextSid, users[rlocal[p]], now)}
    /\ nextSid' = nextSid + 1
    /\ issued' = issued \cup {TokenPairOf(users[rlocal[p]], now).accessToken,
                              TokenPairOf(users[rlocal[p]], now).refreshToken}
    /\ rres' = [rres EXCEPT ![p] = [kind |-> "ok", user |-> rlocal[p]]]
    /\ pc' = [pc EXCEPT ![p] = "done"]
    /\ UNCHANGED <<users, now, config, app, histVars, last, rdata, rlocal>>

NextRegister ==
    \/ \E p \in Procs, d \in RegisterData : RegBegin(p, d)
    \/ \E p \in Procs : RegCheckEmail(p)
    \/ \E p \in Procs : RegCheckUsername(p)
    \/ \E p \in Procs : RegHash(p)
    \/ \E p \in Procs : RegInsert(p)
    \/ \E p \in Procs : RegTokens(p)

SpecRegister == Init /\ [][NextRegister]_vars

\* ------------------------------------------------------ session expiry
\* the clock moves on past MaxTime, up to MaxLateTime
TickLate ==
    /\ now >= MaxTime
    /\ now < MaxLateTime
    /\ now' = now + 1
    /\ last' = Idle
    /\ UNCHANGED <<storeVars, config, app, histVars, regVars>>

NextExpiry ==
    \/ \E d \in SessionRegisterData : Register(d)
    \/ \E token \in issued : \E s \in Salts(token) : Refresh(token, s)
    \/ \E token \in issued : \E s \in Salts(token) : VerifyToken(token, s)
    \/ Tick
    \/ TickLate

\* the sessions of one account followed until after their rows expire
SpecExpiry == Init /\ [][NextExpiry]_vars

\* ------------------------------------------------------- configuration
\* the values the environment can give to issuer and audience
Configs == [issuer : Issuers, audience : Audiences]

\* the process starts again with JWT_ISSUER or JWT_AUDIENCE set to other
\* values; the database keeps its rows.  One change of configuration is
\* followed, away from the values the process first ran with.
Restart(c) ==
    /\ config = [issuer |-> Issuer, audience |-> Audience]
    /\ c # config
    /\ config' = c
    /\ last' = Idle
    /\ UNCHANGED <<storeVars, now, histVars, regVars, app>>

NextConfig ==
    \/ \E d \in SessionRegisterData : Register(d)
    \/ \E token \in issued : \E s \in Salts(token) : Refresh(token, s)
    \/ \E token \in issued : \E s \in Salts(token) : VerifyToken(token, s)
    \/ \E c \in Configs : Restart(c)
    \/ Tick

\* the session lifecycle across restarts with a changed configuration
SpecConfig == Init /\ [][NextConfig]_vars

\* --------------------------------------- refreshToken, one await at a time
\* two refreshToken calls interleave at their awaits; each database statement
\* is atomic, and nothing groups the statements of a call into a transaction.
\* rlocal[p] holds the call's locals, and the rows stored when it began.
RefBegin(p, token) ==
    /\ pc[p] = "idle"
    /\ rdata' = [rdata EXCEPT ![p] = token]
    /\ rlocal' = [rlocal EXCEPT ![p] = [before |-> sessions, session |-> NoValue,
                                        user |-> NoValue, tokens |-> NoTokens,
                                        inserted |-> NoValue, wrote |-> FALSE,
                                        noUser |-> FALSE]]
    /\ IF JwtVerify(token, RefreshSecret, now) # "ok"
       THEN /\ rres' = [rres EXCEPT ![p] = RefreshFailure]
            /\ pc' = [pc EXCEPT ![p] = "done"]
       ELSE /\ pc' = [pc EXCEPT ![p] = "refSession"]
            /\ UNCHANGED rres
    /\ UNCHANGED <<storeVars, now, config, app, histVars, last>>

\* select the session row; !session || session.expiresAt < new Date()
RefSession(p, s) ==
    /\ pc[p] = "refSession"
    /\ LET rows == RefreshSessionRows(rdata[p], BcryptHash(rdata[p], s))
       IN  IF rows = {} \/ \E x \in rows : SessionExpired(x, now)
           THEN /\ rres' = [rres EXCEPT ![p] = RefreshFailure]
                /\ pc' = [pc EXCEPT ![p] = "done"]
                /\ UNCHANGED rlocal
           ELSE /\ rlocal' = [rlocal EXCEPT ![p].session = CHOOSE x \in rows : TRUE]
                /\ pc' = [pc EXCEPT ![p] = "refUser"]
                /\ UNCHANGED rres
    /\ UNCHANGED <<storeVars, now, config, app, histVars, last, rdata>>

\* catch (error) { throw new AppError('Invalid refresh token', 401) }
RefreshCatch(error) == RefreshFailure

\* select the user row; if (!user) throw new AppError('User not found', 404),
\* thrown inside the try block
RefUser(p) ==
    /\ pc[p] = "refUser"
    /\ IF UsersById(rdata[p].payload.sub) = {}
       THEN /\ rres' = [rres EXCEPT ![p] =
                          RefreshCatch(AppError("User not found", 404, NoDetails))]
            /\ pc' = [pc EXCEPT ![p] = "done"]
            /\ rlocal' = [rlocal EXCEPT ![p].noUser = TRUE]
       ELSE /\ rlocal' = [rlocal EXCEPT ![p].user =
                             CHOOSE u \in UsersById(rdata[p].payload.sub) : TRUE]
            /\ pc' = [pc EXCEPT ![p] = "refInsert"]
            /\ UNCHANGED rres
    /\ UNCHANGED <<storeVars, now, config, app, histVars, last, rdata>>

\* generateTokens: sign the new pair and insert its session row
RefInsert(p) ==
    /\ pc[p] = "refInsert"
    /\ nextSid <= MaxSessions
    /\ sessions' = sessions \cup {SessionRow(nextSid, rlocal[p].user, now)}
    /\ nextSid' = nextSid + 1
    /\ issued' = issued \cup {TokenPairOf(rlocal[p].user, now).accessToken,
                              TokenPairOf(rlocal[p].user, now).refreshToken}
    /\ rlocal' = [rlocal EXCEPT ![p].tokens = TokenPairOf(rlocal[p].user, now),
                                ![p].inserted = SessionRow(nextSid, rlocal[p].user, now),
                                ![p].wrote = TRUE]
    /\ pc' = [pc EXCEPT ![p] = "refUpdate"]
    /\ UNCHANGED <<users, now, config, app, histVars, last, rdata, rres>>

\* update(userSessions).set({tokenHash, refreshTokenHash, lastUsedAt})
\*   .where(eq(userSessions.id, session.id)), on the rows given
UpdatedRows(rows, sid, tokens, n, t) ==
    {IF SqlEq(Val(x.id), Val(sid))
     THEN [x EXCEPT !.tokenHash = BcryptHash(tokens.accessToken, UpdateSalt(n)),
                    !.refreshTokenHash = BcryptHash(tokens.refreshToken, UpdateSalt(n)),
                    !.lastUsedAt = t]
     ELSE x : x \in rows}

RefUpdate(p) ==
    /\ pc[p] = "refUpdate"
    /\ sessions' = UpdatedRows(sessions, rlocal[p].session.id, rlocal[p].tokens,
                               rlocal[p].inserted.id, now)
    /\ rotated' = rotated \cup {[token |-> rdata[p], sid |-> rlocal[p].session.id,
                                  access |-> rlocal[p].session.tokenHash[1]]}
    /\ rres' = [rres EXCEPT ![p] = [kind |-> "ok", tokens |-> rlocal[p].tokens]]
    /\ pc' = [pc EXCEPT ![p] = "done"]
    /\ UNCHANGED <<users, nextSid, issued, now, config, app, loggedOut, last, rdata, rlocal>>

\* the call stops between two of its statements: the statement it awaits
\* rejects (the catch block answers Invalid refresh token) or the request is
\* abandoned; no statement of the call runs afterwards
RefAbandon(p) ==
    /\ pc[p] \in {"refSession", "refUser", "refInsert", "refUpdate"}
    /\ rres' = [rres EXCEPT ![p] = RefreshFailure]
    /\ pc' = [pc EXCEPT ![p] = "abandoned"]
    /\ UNCHANGED <<storeVars, now, config, app, histVars, last, rdata, rlocal>>

NextRefresh ==
    \/ \E d \in SessionRegisterData : Register(d)
    \/ \E p \in Procs : \E token \in issued : RefBegin(p, token)
    \/ \E p \in Procs : pc[p] = "refSession" /\ \E s \in Salts(rdata[p]) : RefSession(p, s)
    \/ \E p \in Procs : RefUser(p)
    \/ \E p \in Procs : RefInsert(p)
    \/ \E p \in Procs : RefUpdate(p)
    \/ \E p \in Procs : RefAbandon(p)
    \/ Tick

SpecRefresh == Init /\ [][NextRefresh]_vars

NextSessions ==
    \/ \E d \in RegisterData : Register(d)
    \/ \E token \in issued : \E s \in Salts(token) : Refresh(token, s)
    \/ \E userId \in UserIds, h \in TokenHashes : Logout(userId, h)

\* the sessions of several accounts, within one second
SpecSessions == Init /\ [][NextSessions]_vars

NextLogoutRace ==
    \/ \E d \in SessionRegisterData : Register(d)
    \/ \E p \in Procs : \E token \in issued : RefBegin(p, token)
    \/ \E p \in Procs : pc[p] = "refSession" /\ \E s \in Salts(rdata[p]) : RefSession(p, s)
    \/ \E p \in Procs : RefUser(p)
    \/ \E p \in Procs : RefInsert(p)
    \/ \E p \in Procs : RefUpdate(p)
    \/ \E userId \in UserIds, h \in TokenHashes : Logout(userId, h)

\* refreshes in flight while a logout of the same session arrives
SpecLogoutRace == Init /\ [][NextLogoutRace]_vars

\* --------------------------------------------------------- authMiddleware
\* an Authorization header is a string: here the sequence of its pieces, each
\* a space, a word without spaces, or the text of an access token
Space == <<"space", " ">>
Word(w) == <<"word", w>>
TokenText(token) == <<"token", token>>
IsSpace(c) == c[1] = "space"

MaxHeaderLen == 3
HeaderPieces == {Space, Word("Bearer"), Word("Bot"), Word("bearer")}
                    \cup {TokenText(x.tokenHash[1]) : x \in sessions}
\* the headers a request can carry; the empty one stands for no header
Headers == UNION {[1..n -> HeaderPieces] : n \in 0..MaxHeaderLen}

\* authHeader.split(' ')
RECURSIVE Split(_)
Split(s) ==
    IF \A i \in 1..Len(s) : ~IsSpace(s[i]) THEN <<s>>
    ELSE LET i == CHOOSE k \in 1..Len(s) :
                      IsSpace(s[k]) /\ \A j \in 1..(k - 1) : ~IsSpace(s[j])
         IN  <<SubSeq(s, 1, i - 1)>> \o Split(SubSeq(s, i + 1, Len(s)))

\* scheme === 'Bearer'
IsBearer(scheme) ==
    Len(scheme) = 1 /\ scheme[1][1] = "word" /\ scheme[1][2] = "Bearer"

NullToken == [null |-> TRUE, token |-> <<>>]

\* a header reader that takes the second of two parts whatever the scheme
extractTokenAnyScheme(authHeader) ==
    LET parts == Split(authHeader)
    IN  IF Len(parts) # 2 THEN NullToken
        ELSE [null |-> FALSE, token |-> parts[2]]

extractTokenFromHeader(authHeader) ==
    LET parts == Split(authHeader)
    IN  IF Len(parts) # 2 THEN NullToken
        ELSE IF ~IsBearer(parts[1]) THEN NullToken
        ELSE [null |-> FALSE, token |-> parts[2]]

\* text that is not a token: jwt.verify finds no signature of any secret on it
Malformed ==
    [payload |-> [sub |-> 0, iat |-> 0, exp |-> 0, iss |-> "none", aud |-> "none"],
     secret |-> "none"]

\* what jwt.verify is given for the text taken from the header
DecodeText(text) ==
    IF Len(text) = 1 /\ text[1][1] = "token" THEN text[1][2] ELSE Malformed

\* the error authMiddleware throws before it calls verifyToken
\* (!authHeader, !token: an empty string counts as none)
AuthHeaderError(authHeader) ==
    IF Len(authHeader) = 0
    THEN AppError("Authorization header missing", 401, NoDetails)
    ELSE IF extractTokenFromHeader(authHeader).null
            \/ Len(extractTokenFromHeader(authHeader).token) = 0
    THEN AppError("Invalid authorization format", 401, NoDetails)
    ELSE NoError

BearerToken(authHeader) == DecodeText(extractTokenFromHeader(authHeader).token)

NoResponse == [status |-> 0]

\* one request through authMiddleware: nextCalled says whether it went on to
\* the downstream handler, verifyCalled whether verifyToken was called
AuthRequest(authHeader, s) ==
    /\ LET headerError == AuthHeaderError(authHeader)
           token == BearerToken(authHeader)
           error == IF headerError # NoError THEN headerError
                    ELSE AuthMiddlewareError(VerifyError(token, s, now), token.payload.sub)
       IN  last' = [op |-> "auth", authHeader |-> authHeader,
                    ok |-> error = NoError, err |-> error,
                    verifyCalled |-> headerError = NoError,
                    nextCalled |-> error = NoError,
                    response |-> IF error = NoError THEN NoResponse
                                 ELSE AuthMiddlewareResponse(error)]
    /\ UNCHANGED <<storeVars, now, config, app, histVars, regVars>>

\* the errors a route can pass to errorHandler: operational AppErrors of
\* the service, an AppError made with isOperational = false, and errors that
\* are not AppErrors
ThrownErrors ==
    {AppError("Invalid credentials", 401, NoDetails),
     AppError("User already exists with this email", 409, NoDetails),
     AppError("MFA code required", 401, "mfaRequired"),
     RefreshFailure,
     [AppError("Configuration is invalid", 400, NoDetails) EXCEPT !.isOperational = FALSE],
     [AppError("Database connection lost", 500, NoDetails) EXCEPT !.isOperational = FALSE],
     UniqueViolation,
     [kind |-> "TypeError", message |-> "Cannot read properties of undefined"],
     [kind |-> "Error", message |-> "connect ECONNREFUSED"]}

\* the errors createErrorResponse is given: the thrown ones, and AppErrors
\* with each message getErrorCode knows, in other spellings and with statuses
\* other than the one of the code
ResponseErrors ==
    ThrownErrors
        \cup {AppError(m, 401, NoDetails) :
                m \in {"Invalid Credentials", "Token expired", "User not found",
                       "Invalid token", "Token expired or invalid"}}
        \cup {AppError(m, 404, NoDetails) :
                m \in {"User not found", "USER NOT FOUND", "Server not found",
                       "Channel not found", "Message not found"}}
        \cup {AppError(m, 409, NoDetails) :
                m \in {"User already exists", "Username is already taken"}}
        \cup {AppError(m, 429, NoDetails) : m \in {"Rate limit exceeded"}}
        \cup {AppError(m, 400, NoDetails) : m \in {"Rate limit exceeded", "User not found"}}

\* createErrorResponse called on an error
CreateErrorResponse(error, requestId) ==
    /\ last' = [op |-> "createErrorResponse", ok |-> FALSE, err |-> error,
                response |-> createErrorResponse(error, requestId)]
    /\ UNCHANGED <<storeVars, now, config, app, histVars, regVars>>

\* uuidv4()
RequestIds == {"uuid-1", "uuid-2"}

\* one error through the global error handler of a process whose
\* config.isProduction is the given value
HandleError(error, isProduction, requestId) ==
    /\ last' = [op |-> "error", ok |-> FALSE, err |-> error,
                isProduction |-> isProduction,
                response |-> errorHandler(error, isProduction, requestId)]
    /\ UNCHANGED <<storeVars, now, config, app, histVars, regVars>>

NextHttp ==
    \/ \E d \in SessionRegisterData : Register(d)
    \/ \E h \in Headers : \E s \in Salts(BearerToken(h)) : AuthRequest(h, s)
    \/ \E error \in ThrownErrors, isProduction \in BOOLEAN, requestId \in RequestIds :
          HandleError(error, isProduction, requestId)
    \/ \E error \in ResponseErrors, requestId \in RequestIds :
          CreateErrorResponse(error, requestId)

\* requests through the middleware of the HTTP layer, within one second
SpecHttp == Init /\ [][NextHttp]_vars

\* ------------------------------------------------------ parseTimeToSeconds
\* a time string is the sequence of its characters
Digits == {"0", "1", "5", "7", "9"}
Letters == {"s", "m", "h", "d", "w"}
MaxTimeStringLen == 3
TimeStrings == UNION {[1..n -> Digits \cup Letters] : n \in 1..MaxTimeStringLen}

DigitValue(c) ==
    CASE c = "0" -> 0 [] c = "1" -> 1 [] c = "5" -> 5 [] c = "7" -> 7 [] c = "9" -> 9

\* the number a run of decimal digits spells
RECURSIVE DecimalValue(_)
DecimalValue(digits) ==
    IF Len(digits) = 0 THEN 0
    ELSE 10 * DecimalValue(SubSeq(digits, 1, Len(digits) - 1))
            + DigitValue(digits[Len(digits)])

\* a JavaScript number: NaN, or an integer
NaN == <<"NaN", 0>>
Number(n) == <<"number", n>>
Times(v, k) == IF v = NaN THEN NaN ELSE Number(v[2] * k)

\* the digits a string starts with
RECURSIVE LeadingDigits(_)
LeadingDigits(s) ==
    IF Len(s) = 0 \/ s[1] \notin Digits THEN <<>>
    ELSE <<s[1]>> \o LeadingDigits(SubSeq(s, 2, Len(s)))

\* parseInt(string): the number its leading digits spell, NaN without any
parseInt(s) ==
    IF LeadingDigits(s) = <<>> THEN NaN ELSE Number(DecimalValue(LeadingDigits(s)))

parseTimeToSeconds(timeString) ==
    LET unit == timeString[Len(timeString)]
        value == parseInt(SubSeq(timeString, 1, Len(timeString) - 1))
    IN  CASE unit = "s" -> value
          [] unit = "m" -> Times(value, 60)
          [] unit = "h" -> Times(Times(value, 60), 60)
          [] unit = "d" -> Times(Times(Times(value, 60), 60), 24)
          [] OTHER -> value

\* parseTimeToSeconds called on a configured lifetime
ParseTime(timeString) ==
    /\ last' = [op |-> "parseTime", ok |-> TRUE, err |-> NoError,
                timeString |-> timeString,
                seconds |-> parseTimeToSeconds(timeString)]
    /\ UNCHANGED <<storeVars, now, config, app, histVars, regVars>>

NextParse == \E timeString \in TimeStrings : ParseTime(timeString)

\* the lifetimes a configuration can give, parsed
SpecParse == Init /\ [][NextParse]_vars

\* ------------------------------------------- the three auth middlewares
\* the columns the middlewares select into req.user
SelectedUser(user) ==
    [id |-> user.id, email |-> user.email, username |-> user.username,
     mfaEnabled |-> user.mfaEnabled, system |-> user.system, flags |-> user.flags]

\* what a middleware has done when it returns: the responses it sent, how
\* often it called next, and the req.user it attached
Passed(user) == [responses |-> <<>>, nexts |-> 1, attached |-> TRUE, user |-> user]
PassedAnonymous == [responses |-> <<>>, nexts |-> 1, attached |-> FALSE, user |-> NoValue]
Rejected(response) ==
    [responses |-> <<response>>, nexts |-> 0, attached |-> FALSE, user |-> NoValue]

\* the error authMiddleware has thrown once its select of the user is done
AuthThrown(error, userRows) ==
    IF error # NoError THEN error
    ELSE IF userRows = {} THEN AppError("User not found", 401, NoDetails)
    ELSE NoError

\* an authMiddleware that goes on to next after it has sent the error response
AuthOutcomeFallThrough(error, userRows) ==
    IF AuthThrown(error, userRows) = NoError
    THEN Passed(SelectedUser(CHOOSE u \in userRows : TRUE))
    ELSE [Rejected(AuthMiddlewareResponse(AuthThrown(error, userRows))) EXCEPT !.nexts = 1]

\* authMiddleware: error is what the header checks or verifyToken threw,
\* userRows what the select by payload.sub returned (if it was reached)
AuthOutcome(error, userRows) ==
    IF AuthThrown(error, userRows) = NoError
    THEN Passed(SelectedUser(CHOOSE u \in userRows : TRUE))
    ELSE Rejected(AuthMiddlewareResponse(AuthThrown(error, userRows)))

\* an optional middleware that answers 401 when the token does not verify
OptionalOutcomeStrict(error, userRows) ==
    IF error # NoError THEN Rejected(AuthMiddlewareResponse(error))
    ELSE IF userRows = {} THEN PassedAnonymous
    ELSE Passed(SelectedUser(CHOOSE u \in userRows : TRUE))

\* optionalAuthMiddleware: every path ends in next()
OptionalOutcome(error, userRows) ==
    IF error # NoError THEN PassedAnonymous
    ELSE IF userRows = {} THEN PassedAnonymous
    ELSE Passed(SelectedUser(CHOOSE u \in userRows : TRUE))

\* an admin test that takes any flag for the admin flag
IsAdminAnyFlag(flags) == flags # 0

\* (req.user.flags & 1) === 1
IsAdmin(flags) == flags % 2 = 1

\* adminAuthMiddleware: authMiddleware with a callback in the place of next
AdminOutcome(error, userRows) ==
    LET auth == AuthOutcome(error, userRows)
    IN  IF auth.nexts = 0 THEN auth
        ELSE IF ~auth.attached
        THEN Rejected([status |-> 401,
                       error |-> [code |-> 40101, message |-> "Unauthorized",
                                  details |-> "Authentication required"]])
        ELSE IF ~IsAdmin(auth.user.flags) /\ ~auth.user.system
        THEN [Rejected([status |-> 403,
                        error |-> [code |-> 40301, message |-> "Forbidden",
                                   details |-> "Admin privileges required"]])
                EXCEPT !.attached = TRUE, !.user = auth.user]
        ELSE auth

Middlewares == {"auth", "optional", "admin"}

\* the headers of the requests followed through the middlewares: none, and a
\* scheme, a space and a token or a word that is no token
RequestHeaders ==
    {<<>>} \cup {<<Word(w), Space, piece>> :
                    w \in {"Bearer", "Bot"},
                    piece \in {Word("bearer")}
                                \cup {TokenText(x.tokenHash[1]) : x \in sessions}
                                \cup {TokenText(token) : token \in issued}}

MiddlewareOutcome(kind, error, userRows) ==
    CASE kind = "auth" -> AuthOutcome(error, userRows)
      [] kind = "optional" -> OptionalOutcome(error, userRows)
      [] kind = "admin" -> AdminOutcome(error, userRows)

\* a request enters a middleware: the header checks and the awaited
\* verifyToken; one request is in a middleware at a time
MwBegin(p, kind, authHeader, s) ==
    /\ \A q \in Procs : pc[q] = "idle"
    /\ rdata' = [rdata EXCEPT ![p] = [kind |-> kind, authHeader |-> authHeader]]
    /\ LET headerError == AuthHeaderError(authHeader)
           token == BearerToken(authHeader)
           error == IF headerError # NoError THEN headerError
                    ELSE VerifyError(token, s, now)
       IN  /\ rlocal' = [rlocal EXCEPT ![p] =
                            [verifyCalled |-> headerError = NoError,
                             verified |-> error = NoError,
                             userFound |-> FALSE,
                             sub |-> token.payload.sub]]
           /\ IF error # NoError
              THEN /\ rres' = [rres EXCEPT ![p] = MiddlewareOutcome(kind, error, {})]
                   /\ pc' = [pc EXCEPT ![p] = "done"]
              ELSE /\ pc' = [pc EXCEPT ![p] = "mwUser"]
                   /\ UNCHANGED rres
    /\ UNCHANGED <<storeVars, now, config, app, histVars, last>>

\* the awaited select of the user by payload.sub, and what follows it
MwUser(p) ==
    /\ pc[p] = "mwUser"
    /\ rlocal' = [rlocal EXCEPT ![p].userFound = UsersById(rlocal[p].sub) # {}]
    /\ rres' = [rres EXCEPT ![p] =
                  MiddlewareOutcome(rdata[p].kind, NoError, UsersById(rlocal[p].sub))]
    /\ pc' = [pc EXCEPT ![p] = "done"]
    /\ UNCHANGED <<storeVars, now, config, app, histVars, last, rdata>>

MaxFlags == 3

\* the account's flags and system columns are set
SetPrivileges(i, flags, system) ==
    /\ i \in 1..Len(users)
    /\ users[i] # Removed
    /\ <<users[i].flags, users[i].system>> # <<flags, system>>
    /\ users' = [users EXCEPT ![i].flags = flags, ![i].system = system]
    /\ last' = Idle
    /\ UNCHANGED <<sessions, nextSid, issued, now, config, app, histVars, regVars>>

\* ------------------------------------------------------- account removal
\* the users row is deleted; its user_sessions rows go with it (ON DELETE CASCADE)
DeleteAccount(i) ==
    /\ i \in 1..Len(users)
    /\ users[i] # Removed
    /\ users' = [users EXCEPT ![i] = Removed]
    /\ sessions' = {x \in sessions : x.userId # i}
    /\ last' = Idle
    /\ UNCHANGED <<nextSid, issued, now, config, app, histVars, regVars>>

NextRemoval ==
    \/ \E d \in SessionRegisterData : Register(d)
    \/ \E p \in Procs : \E token \in issued : RefBegin(p, token)
    \/ \E p \in Procs : pc[p] = "refSession" /\ \E s \in Salts(rdata[p]) : RefSession(p, s)
    \/ \E p \in Procs : RefUser(p)
    \/ \E p \in Procs : RefInsert(p)
    \/ \E p \in Procs : RefUpdate(p)
    \/ \E i \in 1..MaxUsers : DeleteAccount(i)
    \/ Tick

\* refreshes in flight while an account's row is deleted
SpecRemoval == Init /\ [][NextRemoval]_vars

\* no request has returned from its middleware yet
NoneReturned == \A q \in Procs : pc[q] # "done"

NextMiddleware ==
    \/ NoneReturned /\ \E d \in SessionRegisterData : Register(d)
    \/ /\ \A q \in Procs : pc[q] = "idle"
       /\ \E p \in Procs, kind \in Middlewares, h \in RequestHeaders :
             \E s \in Salts(BearerToken(h)) : MwBegin(p, kind, h, s)
    \/ \E p \in Procs : MwUser(p)
    \/ NoneReturned /\ \E i \in 1..MaxUsers : DeleteAccount(i)
    \/ /\ NoneReturned
       /\ \E i \in 1..MaxUsers, flags \in 0..MaxFlags, system \in BOOLEAN :
             SetPrivileges(i, flags, system)
    \/ NoneReturned /\ Tick

\* one request through one of the auth middlewares while accounts change,
\* followed until the middleware returns
SpecMiddleware == Init /\ [][NextMiddleware]_vars

\* ================================================================ claims
\* accounts that are stored and not soft-deleted, by email
LiveAccounts(email) == {u \in UserRows : u.email = email /\ u.deletedAt = NULL}

InvalidCredentials == AppError("Invalid credentials", 401, NoDetails)

\* C1: a refresh token that a Refresh has already consumed is never accepted
\* by a later Refresh.
C1_RefreshTokenSingleUse ==
    ~(last.op = "refresh" /\ last.ok /\ last.reused)

\* C2: when a refresh token that was rotated away (validly signed, unexpired,
\* held by no session any more) is presented to Refresh, the call fails and
\* the session the token belonged to is gone from the store.
C2_ReuseRevokesSession ==
    (last.op = "refresh" /\ last.verified /\ ~last.current /\ last.replayedSids # {})
        => /\ ~last.ok
           /\ \A x \in sessions : x.id \notin last.replayedSids

\* C3: once Logout has deleted a session, VerifyAccess on the access token
\* that session held fails.
C3_LoggedOutTokenRejected ==
    (last.op = "verify" /\ last.afterLogout) => ~last.ok

\* C4: VerifyAccess on an access token whose exp has passed fails, whatever
\* the session store holds.
C4_ExpiredAccessTokenRejected ==
    (last.op = "verify" /\ last.expired)
        => (~last.ok /\ last.err = AppError("Invalid token", 401, NoDetails))

\* C4 witness: an expired, validly signed access token was verified while its
\* session row was still stored and unexpired.
C4_Witness ==
    /\ last.op = "verify"
    /\ last.expired /\ last.signed /\ last.sessionLive
    /\ ~last.ok

\* C5: a Login with the email and password of a registered account (no second
\* factor enabled) succeeds and returns tokens whose subject is the account id.
C5_LoginAfterRegister ==
    last.op = "login" =>
        \A u \in LiveAccounts(last.credentials.email) :
            (BcryptCompare(last.credentials.password, u.passwordHash) /\ ~u.mfaEnabled)
                => /\ last.ok
                   /\ last.tokens.accessToken.payload.sub = u.id
                   /\ last.tokens.refreshToken.payload.sub = u.id

\* C6: a Register whose email or username an account already has fails with
\* status 409 and leaves users and sessions as they were.
C6_ConflictLeavesStore ==
    [][(last'.op = "register"
          /\ \E u \in UserRows : u.email = last'.data.email
                                  \/ u.username = last'.data.username)
        => /\ ~last'.ok
           /\ errorHandlerStatus(last'.err) = 409
           /\ users' = users /\ sessions' = sessions /\ nextSid' = nextSid]_vars

\* C6 witness: a Register with a taken email and a free username has failed.
C6_Witness ==
    /\ last.op = "register" /\ ~last.ok
    /\ \E u \in UserRows : u.email = last.data.email
    /\ \A u \in UserRows : u.username # last.data.username

\* C7: when two Register calls with the same email or the same username have
\* both finished, at most one account has that email/username and the call
\* that created none was answered with Conflict (409).
C7_ConcurrentRegisterConflict ==
    (/\ \A p \in Procs : pc[p] = "done"
     /\ \/ rdata[1].email = rdata[2].email
        \/ rdata[1].username = rdata[2].username)
        => /\ Cardinality({u \in UserRows : u.email = rdata[1].email}) <= 1
           /\ Cardinality({u \in UserRows : u.username = rdata[1].username}) <= 1
           /\ \E p \in Procs : rres[p].kind # "ok"
           /\ \A p \in Procs : rres[p].kind # "ok" => errorHandlerStatus(rres[p]) = 409

\* C8: Login answers an unknown email and a wrong password for a known email
\* with the same error: Invalid credentials, 401.
C8_UniformInvalidCredentials ==
    (/\ last.op = "login"
     /\ \/ \A u \in UserRows : u.email # last.credentials.email
        \/ \E u \in UserRows : /\ u.email = last.credentials.email
                                 /\ ~BcryptCompare(last.credentials.password, u.passwordHash))
        => (~last.ok /\ last.err = InvalidCredentials)

\* C8 witness: a Login with a known email and a wrong password has failed.
C8_Witness ==
    /\ last.op = "login" /\ ~last.ok
    /\ \E u \in LiveAccounts(last.credentials.email) :
          ~BcryptCompare(last.credentials.password, u.passwordHash)

\* C9: for an account with the second factor enabled, Login with the right
\* password and no code fails with the MFA-required error (not the error of
\* bad credentials nor that of a bad code) and issues no tokens.
C9_MfaRequired ==
    (/\ last.op = "login"
     /\ last.credentials.mfaCode = NoCode
     /\ \E u \in LiveAccounts(last.credentials.email) :
           u.mfaEnabled /\ BcryptCompare(last.credentials.password, u.passwordHash))
        => /\ ~last.ok
           /\ last.tokens = NoTokens
           /\ last.err = AppError("MFA code required", 401, "mfaRequired")

\* C10: for an account with the second factor enabled, Login issues tokens
\* only after the password and then the code were verified; a wrong password
\* gives Invalid credentials with or without a code, and the right password
\* with a wrong code gives Invalid MFA code.
C10_MfaGateOrder ==
    last.op = "login" =>
        \A u \in LiveAccounts(last.credentials.email) : u.mfaEnabled =>
            LET pwOk == BcryptCompare(last.credentials.password, u.passwordHash)
                code == last.credentials.mfaCode
            IN  /\ last.ok => (pwOk /\ code # NoCode /\ verifyMfaCode(u.id, code))
                /\ ~pwOk => last.err = InvalidCredentials
                /\ (pwOk /\ code # NoCode /\ ~verifyMfaCode(u.id, code))
                      => last.err = AppError("Invalid MFA code", 401, NoDetails)

\* C11: a Refresh with a validly signed, unexpired refresh token whose lookup
\* by (account id, refresh-token hash) finds no session row, or finds a row
\* that has expired, fails with Invalid refresh token (401) and creates,
\* updates and deletes no session row.
C11_RefreshWithoutSession ==
    [][(/\ last'.op = "refresh"
        /\ last'.verified
        /\ (~last'.found \/ last'.foundExpired))
        => /\ ~last'.ok
           /\ last'.err = RefreshFailure
           /\ last'.tokens = NoTokens
           /\ sessions' = sessions /\ nextSid' = nextSid]_vars

\* C11 witness: a Refresh with a verified token found its session row expired
\* and failed.
C11_Witness ==
    /\ last.op = "refresh" /\ last.verified
    /\ last.found /\ last.foundExpired
    /\ ~last.ok

\* C12: a Refresh for an account that has been soft-deleted fails and issues
\* no token pair.
C12_RefreshAfterSoftDelete ==
    (/\ last.op = "refresh"
     /\ \E u \in UserRows : u.id = last.sub /\ u.deletedAt # NULL)
        => (~last.ok /\ last.tokens = NoTokens)

\* C13: once an account's soft-delete timestamp is set, VerifyAccess and the
\* authenticated-request path reject every access token of that account.
C13_SoftDeleteInvalidatesSessions ==
    (/\ last.op = "verify"
     /\ \E u \in UserRows : u.id = last.sub /\ u.deletedAt # NULL)
        => (~last.ok /\ last.request # NoError)

\* C14: no two session rows belong to the same account and hold the hash of
\* the same access token.
C14_OneSessionPerAccessToken ==
    \A x, y \in sessions :
        (x.userId = y.userId /\ x.tokenHash[1] = y.tokenHash[1]) => x = y

\* C15: Logout never fails, and a Logout of a session that an earlier Logout
\* has deleted, or that never existed, leaves the session store as it is.
C15_LogoutIdempotent ==
    [][last'.op = "logout"
        => /\ last'.ok
           /\ (last'.revoked \/ last'.deleted = {}) => sessions' = sessions]_vars

\* C15 witness: a second Logout with the digest of an already deleted session
\* row has completed without error.
C15_Witness ==
    /\ last.op = "logout" /\ last.revoked
    /\ last.ok /\ last.deleted = {}

\* C16: while a stored session row has expiresAt earlier than the current
\* time, neither VerifyAccess nor Refresh accepts a token that row holds.
C16_ExpiredSessionRejected ==
    (last.op \in {"verify", "refresh"} /\ last.heldByExpired) => ~last.ok

\* the session rows a refreshToken call leaves when it runs to its end alone
RefreshCompleted(l) ==
    UpdatedRows(l.before \cup {l.inserted}, l.session.id, l.tokens, l.inserted.id,
                l.inserted.lastUsedAt)

\* C17: when a Refresh has stopped between its steps (no other Refresh in
\* flight), the session rows are those stored before it began or those a
\* completed Refresh leaves.
C17_RefreshAllOrNothing ==
    \A p \in Procs :
        (pc[p] = "abandoned" /\ \A q \in Procs \ {p} : pc[q] = "idle")
            => \/ sessions = rlocal[p].before
               \/ /\ rlocal[p].wrote
                  /\ sessions = RefreshCompleted(rlocal[p])

\* C18: of two concurrent Refresh calls that present the same refresh token,
\* at most one returns a token pair.
C18_ConcurrentRefreshOneWinner ==
    ~(/\ \A p \in Procs : pc[p] = "done" /\ rres[p].kind = "ok"
      /\ rdata[1] = rdata[2])

\* C19: a refresh token presented to VerifyAccess is rejected as an invalid
\* token, and an access token presented to Refresh is rejected, because the
\* signature made with the other kind's secret does not verify.
C19_TokensNotInterchangeable ==
    /\ (last.op = "verify" /\ ~last.signed)
          => (~last.ok /\ last.err = AppError("Invalid token", 401, NoDetails))
    /\ (last.op = "refresh" /\ ~last.signed)
          => (~last.ok /\ ~last.verified /\ last.err = RefreshFailure)

\* C19 witness: an unexpired refresh token was presented to VerifyAccess and
\* rejected.
C19_Witness ==
    /\ last.op = "verify"
    /\ ~last.signed /\ ~last.expired
    /\ ~last.ok

\* C20: a token whose issuer or audience differs from the configured values
\* is rejected by VerifyAccess and by Refresh.
C20_IssuerAudienceValidated ==
    (last.op \in {"verify", "refresh"} /\ ~last.realm) => ~last.ok

\* C21: a failed VerifyAccess answers alike whatever made it fail: a token
\* with a wrong signature, an expired token and a token of a revoked session
\* all get the status, code and message of the invalid-token error.
C21_UniformVerifyFailure ==
    (/\ last.op = "verify"
     /\ \/ ~last.signed
        \/ last.expired
        \/ last.afterLogout /\ ~last.held)
        => /\ ~last.ok
           /\ AuthMiddlewareResponse(last.err)
                = AuthMiddlewareResponse(AppError("Invalid token", 401, NoDetails))

\* C22: a Refresh that has found a live session record and then finds no
\* account for it fails with the account-not-found error, which the caller
\* gets as such and not as the invalid-refresh-token error.
C22_RefreshAccountNotFound ==
    \A p \in Procs :
        (pc[p] = "done" /\ rlocal[p].noUser)
            => rres[p] = AppError("User not found", 404, NoDetails)

\* C23: a request whose Authorization header does not have exactly two
\* space-separated parts, or whose scheme is not exactly Bearer, is answered
\* 401 by authMiddleware: the downstream handler is not called and no token
\* verification is attempted.
C23_BearerOnly ==
    (/\ last.op = "auth"
     /\ \/ Len(Split(last.authHeader)) # 2
        \/ Split(last.authHeader)[1] # <<Word("Bearer")>>)
        => /\ last.response.status = 401
           /\ ~last.nextCalled
           /\ ~last.verifyCalled

\* a Bot header that carries an access token of a stored session
C23_Witness ==
    /\ last.op = "auth"
    /\ \E x \in sessions :
          last.authHeader = <<Word("Bot"), Space, TokenText(x.tokenHash[1])>>
    /\ last.response.status = 401

\* C24: an access token that has been issued is usable: while a session
\* record holds it, no holder has expired and the token itself has not
\* expired, VerifyAccess on it succeeds with the account id as subject.
C24_FreshAccessTokenUsable ==
    (/\ last.op = "verify"
     /\ last.signed /\ last.realm /\ ~last.expired
     /\ last.held /\ ~last.heldByExpired)
        => /\ last.ok
           /\ last.payload.sub = last.sub

\* C25: a Refresh with the refresh token that a live, unexpired session
\* record of an existing account holds succeeds, and the refresh token it
\* returns is in turn held by a session record, ready for the next Refresh.
C25_RefreshChain ==
    (/\ last.op = "refresh"
     /\ last.verified /\ last.realm
     /\ last.current /\ ~last.heldByExpired
     /\ UsersById(last.sub) # {})
        => /\ last.ok
           /\ \E x \in sessions : x.refreshTokenHash[1] = last.tokens.refreshToken

\* C26: a successful Refresh rotates in place: the account has as many
\* session records after it as before it.
C26_RefreshKeepsRowCount ==
    [][(last'.op = "refresh" /\ last'.ok)
        => Cardinality({x \in sessions' : x.userId = last'.sub})
            = Cardinality({x \in sessions : x.userId = last'.sub})]_vars

\* C27: the expiry of every session record equals the expiry of the refresh
\* token whose digest the record holds, after a rotation too.
C27_RowExpiryMatchesToken ==
    \A x \in sessions : x.expiresAt = x.refreshTokenHash[1].payload.exp

\* C28: the account value that a successful Register or Login returns does
\* not contain the password hash.
C28_NoPasswordHashReturned ==
    (last.op \in {"register", "login"} /\ last.ok)
        => "passwordHash" \notin DOMAIN last.user

\* a register that has stored a password hash and returned the account
C28_Witness ==
    /\ last.op = "register"
    /\ last.ok
    /\ \E u \in UserRows : /\ u.id = last.user.id
                            /\ u.passwordHash[1] = last.data.password

\* C30: a Login that fails leaves the store as it was: no session record is
\* created, changed or deleted and no account is modified.
C30_FailedLoginLeavesStore ==
    [][(last'.op = "login" /\ ~last'.ok)
        => /\ sessions' = sessions
           /\ users' = users
           /\ nextSid' = nextSid
           /\ issued' = issued]_vars

\* a refused login for the email of an account that has a session
C30_Witness ==
    /\ last.op = "login"
    /\ ~last.ok
    /\ last.err = InvalidCredentials
    /\ \E u \in UserRows : /\ u.email = last.credentials.email
                            /\ \E x \in sessions : x.userId = u.id

C31_RotationRetiresAccessToken ==
    (last.op = "verify" /\ last.rotatedAway /\ ~last.expired) => ~last.ok

\* C32: a Logout wins over a Refresh of the same session that is in flight:
\* when the Logout has deleted the session record after the Refresh looked it
\* up, then once the Refresh has finished no session record made from that
\* session is stored and no record holds the access token the Refresh returned.
C32_LogoutWinsOverRefresh ==
    \A p \in Procs :
        (/\ pc[p] = "done"
         /\ rlocal[p].wrote
         /\ rlocal[p].session.tokenHash \in loggedOut)
            => \A x \in sessions :
                  /\ x.id \notin {rlocal[p].session.id, rlocal[p].inserted.id}
                  /\ x.tokenHash[1] # rlocal[p].tokens.accessToken

C34_AuthExactlyOneOutcome ==
    \A p \in Procs :
        (pc[p] = "done" /\ rdata[p].kind = "auth")
            => IF /\ Len(rdata[p].authHeader) > 0
                  /\ rlocal[p].verified
                  /\ rlocal[p].userFound
               THEN /\ rres[p].nexts = 1
                    /\ rres[p].responses = <<>>
                    /\ rres[p].attached
                    /\ rres[p].user.id = rlocal[p].sub
               ELSE /\ rres[p].nexts = 0
                    /\ Len(rres[p].responses) = 1
                    /\ rres[p].responses[1].status = 401
                    /\ ~rres[p].attached

\* a request whose token verified and whose account was deleted before the
\* middleware selected the user
C34_Witness ==
    \E p \in Procs :
        /\ pc[p] = "done"
        /\ rdata[p].kind = "auth"
        /\ rlocal[p].verified
        /\ ~rlocal[p].userFound
        /\ rres[p].nexts = 0

\* C35: adminAuthMiddleware calls next only for a request that authMiddleware
\* authenticated and whose user has flags bit 0 set or is a system user; an
\* authenticated user with neither gets one 403, an unauthenticated request
\* one 401, and next is called in neither case.
C35_AdminOnly ==
    \A p \in Procs :
        (pc[p] = "done" /\ rdata[p].kind = "admin")
            => IF ~(rlocal[p].verified /\ rlocal[p].userFound)
               THEN /\ rres[p].nexts = 0
                    /\ Len(rres[p].responses) = 1
                    /\ rres[p].responses[1].status = 401
               ELSE IF rres[p].user.flags \in {1, 3, 5} \/ rres[p].user.system
               THEN /\ rres[p].nexts = 1
                    /\ rres[p].responses = <<>>
               ELSE /\ rres[p].nexts = 0
                    /\ Len(rres[p].responses) = 1
                    /\ rres[p].responses[1].status = 403

\* an authenticated user whose flags are 2 (bit 1 and not bit 0) is refused
C35_Witness ==
    \E p \in Procs :
        /\ pc[p] = "done"
        /\ rdata[p].kind = "admin"
        /\ rlocal[p].verified /\ rlocal[p].userFound
        /\ rres[p].user.flags = 2
        /\ ~rres[p].user.system
        /\ rres[p].responses # <<>>

\* C36: optionalAuthMiddleware never rejects: whatever the header, it calls
\* next once and sends no response, and it attaches req.user only when the
\* token verified and the user row exists.
C36_OptionalNeverRejects ==
    \A p \in Procs :
        (pc[p] = "done" /\ rdata[p].kind = "optional")
            => /\ rres[p].nexts = 1
               /\ rres[p].responses = <<>>
               /\ rres[p].attached <=> (rlocal[p].verified /\ rlocal[p].userFound)

\* a Bearer token that verifyToken refused, let through without a user
C36_Witness ==
    \E p \in Procs :
        /\ pc[p] = "done"
        /\ rdata[p].kind = "optional"
        /\ rlocal[p].verifyCalled
        /\ ~rlocal[p].verified
        /\ rres[p].nexts = 1

\* the code a table of known messages gives an error: 50001 for an error that
\* is no AppError, the table's code for a known message in any spelling, and
\* the status times 100 plus 1 otherwise
CodeByTable(error, table) ==
    IF error.kind # "AppError" THEN 50001
    ELSE IF \E e \in table : e[1] = toLowerCase(error.message)
    THEN (CHOOSE e \in table : e[1] = toLowerCase(error.message))[2]
    ELSE error.statusCode * 100 + 1

SixKnownMessages ==
    {<<"invalid credentials", 40101>>, <<"token expired", 40102>>,
     <<"user not found", 40401>>, <<"user already exists", 40901>>,
     <<"username is already taken", 40902>>, <<"rate limit exceeded", 42901>>}

Serving == app.server = "listening" /\ app.exitBy = "none"

\* Application.start() is called and waits for testDatabaseConnection()
Start ==
    /\ app.start = "new"
    /\ app' = [app EXCEPT !.start = "testing"]
    /\ UNCHANGED <<storeVars, now, config, histVars, last, regVars>>

\* a start() that listens whatever the connection test returned
StartUntested(dbConnected) ==
    /\ app.start = "testing"
    /\ app' = [app EXCEPT !.start = "started",
                          !.dbConnected = IF dbConnected THEN "yes" ELSE "no",
                          !.server = "listening",
                          !.handlers = TRUE]
    /\ UNCHANGED <<storeVars, now, config, histVars, last, regVars>>

\* testDatabaseConnection() resolves, true when SELECT 1 succeeded and false
\* when it threw, and start() goes on in the same turn: on false it throws,
\* its catch calls process.exit(1); on true it calls server.listen and
\* registers the shutdown handlers
StartTested(dbConnected) ==
    /\ app.start = "testing"
    /\ IF dbConnected
       THEN app' = [app EXCEPT !.start = "started",
                               !.dbConnected = "yes",
                               !.server = "listening",
                               !.handlers = TRUE]
       ELSE app' = [app EXCEPT !.start = "failed",
                               !.dbConnected = "no",
                               !.exitBy = "start",
                               !.code = 1]
    /\ UNCHANGED <<storeVars, now, config, histVars, last, regVars>>

\* SIGTERM, SIGINT, an uncaught exception or an unhandled rejection calls
\* gracefulShutdown, which calls server.close and waits for its callback; the
\* server stops accepting connections.  Each p is one such call.
GracefulShutdown(p) ==
    /\ app.handlers
    /\ app.exitBy = "none"
    /\ pc[p] = "idle"
    /\ pc' = [pc EXCEPT ![p] = "serverClose"]
    /\ app' = [app EXCEPT !.server = IF @ = "listening" THEN "closing" ELSE @]
    /\ UNCHANGED <<storeVars, now, config, histVars, last, rdata, rlocal, rres>>

\* the last open connection ends and the HTTP server has finished closing
ServerClosed ==
    /\ app.server = "closing"
    /\ app.exitBy = "none"
    /\ app' = [app EXCEPT !.server = "closed"]
    /\ UNCHANGED <<storeVars, now, config, histVars, last, regVars>>

\* a gracefulShutdown that does not wait for the callback of server.close
ShutdownWithoutWaiting(p, ioThrows) ==
    /\ pc[p] = "serverClose"
    /\ app.exitBy = "none"
    /\ IF ioThrows
       THEN /\ app' = [app EXCEPT !.threw = TRUE, !.exitBy = "shutdown", !.code = 1]
            /\ pc' = [pc EXCEPT ![p] = "exited"]
       ELSE /\ app' = [app EXCEPT !.io = "closed",
                                   !.db = IF @ = "open" THEN "ending" ELSE @]
            /\ pc' = [pc EXCEPT ![p] = "dbClose"]
    /\ UNCHANGED <<storeVars, now, config, histVars, last, rdata, rlocal, rres>>

\* the callback of server.close runs and gracefulShutdown goes on: it calls
\* io.close, which is not awaited, then closeDatabaseConnection(), whose
\* sql.end() it waits for; when io.close throws, the catch calls
\* process.exit(1)
ShutdownServerClosed(p, ioThrows) ==
    /\ pc[p] = "serverClose"
    /\ app.server = "closed"
    /\ app.exitBy = "none"
    /\ IF ioThrows
       THEN /\ app' = [app EXCEPT !.threw = TRUE, !.exitBy = "shutdown", !.code = 1]
            /\ pc' = [pc EXCEPT ![p] = "exited"]
       ELSE /\ app' = [app EXCEPT !.io = "closed",
                                   !.db = IF @ = "open" THEN "ending" ELSE @]
            /\ pc' = [pc EXCEPT ![p] = "dbClose"]
    /\ UNCHANGED <<storeVars, now, config, histVars, last, rdata, rlocal, rres>>

\* sql.end() settles: resolved, the connection is closed; rejected,
\* closeDatabaseConnection logs the error and returns all the same.
\* gracefulShutdown goes on in the same turn and calls process.exit(0).
ShutdownDbClosed(p, ended) ==
    /\ pc[p] = "dbClose"
    /\ app.exitBy = "none"
    /\ app' = [app EXCEPT !.db = IF ended THEN "closed" ELSE @,
                          !.threw = @ \/ ~ended,
                          !.exitBy = "shutdown",
                          !.code = 0]
    /\ pc' = [pc EXCEPT ![p] = "exited"]
    /\ UNCHANGED <<storeVars, now, config, histVars, last, rdata, rlocal, rres>>

NextLifecycle ==
    \/ Start
    \/ \E dbConnected \in BOOLEAN : StartTested(dbConnected)
    \/ Serving /\ \E d \in SessionRegisterData : Register(d)
    \/ /\ Serving
       /\ \E token \in issued : \E s \in Salts(token) : VerifyToken(token, s)
    \/ app.exitBy = "none" /\ Tick
    \/ \E p \in Procs : GracefulShutdown(p)
    \/ ServerClosed
    \/ \E p \in Procs, ioThrows \in BOOLEAN : ShutdownServerClosed(p, ioThrows)
    \/ \E p \in Procs, ended \in BOOLEAN : ShutdownDbClosed(p, ended)

\* the process from start() to its exit, serving requests while it listens
SpecLifecycle == Init /\ [][NextLifecycle]_vars

\* C38: the server listens only after the database connection test has
\* succeeded; when the test fails the server never listens and the process
\* exits with code 1.
C38_StartupGating ==
    /\ app.server # "created" => app.dbConnected = "yes"
    /\ app.dbConnected = "no"
          => /\ app.server = "created"
             /\ app.exitBy = "start"
             /\ app.code = 1

\* the test has failed and start() has ended the process
C38_Witness ==
    /\ app.dbConnected = "no"
    /\ app.start = "failed"
    /\ app.exitBy = "start"

\* C39: in gracefulShutdown the database connection is closed only after the
\* HTTP server has finished closing, and the process exits only after the
\* database connection has been closed or a shutdown step has thrown.
C39_ShutdownOrdering ==
    /\ app.db # "open" => app.server = "closed"
    /\ app.exitBy = "shutdown" => (app.db = "closed" \/ app.threw)

\* a shutdown that ran to its end: server closed, connection closed, exit 0
C39_Witness ==
    /\ app.exitBy = "shutdown"
    /\ app.code = 0
    /\ app.server = "closed"
    /\ app.db = "closed"
    /\ ~app.threw

\* the seconds in one unit of a duration
UnitSeconds(unit) ==
    CASE unit = "s" -> 1 [] unit = "m" -> 60 [] unit = "h" -> 3600 [] unit = "d" -> 86400

\* C40: parseTimeToSeconds gives n for '<n>s', n*60 for '<n>m', n*3600 for
\* '<n>h' and n*86400 for '<n>d', and gives a string of digits alone, a bare
\* number of seconds, that number.
C40_ParseTimeToSeconds ==
    last.op = "parseTime"
        => LET s == last.timeString
               front == SubSeq(s, 1, Len(s) - 1)
               unit == s[Len(s)]
           IN  /\ (/\ Len(front) > 0
                    /\ \A i \in 1..Len(front) : front[i] \in Digits
                    /\ unit \in {"s", "m", "h", "d"})
                      => last.seconds = Number(DecimalValue(front) * UnitSeconds(unit))
               /\ (\A i \in 1..Len(s) : s[i] \in Digits)
                      => last.seconds = Number(DecimalValue(s))

====
